---- MODULE Spec2Model ----
(***************************************************************************)
(* Model of the icon cache service worker (background/fetch.js):           *)
(* the fetch event handler, the redirect mapping kept in                   *)
(* chrome.storage.local, the icon cache kept in CacheStorage, the          *)
(* freshness test and the activation sweep.                                *)
(*                                                                         *)
(* Every await of the handler is one step of a task, so that handlers in   *)
(* flight interleave at exactly the points where the event loop can        *)
(* switch between them.  The network, the clock and the failure of a       *)
(* storage call are the environment: they are chosen nondeterministically. *)
(***************************************************************************)
EXTENDS Integers, Sequences, FiniteSets, TLC

(***************************************************************************)
(* Bounds of the model.                                                    *)
(***************************************************************************)
NumTasks == 2
MaxTicks == 2
MaxFaults == 1

Tasks == 1..NumTasks

(***************************************************************************)
(* Program constants.                                                      *)
(***************************************************************************)
(***************************************************************************)
(* Time.  JavaScript times are milliseconds held in a double, exact far    *)
(* beyond 32 bits; here a time or a duration is the pair of its whole      *)
(* seconds s and its remaining milliseconds ms (0..999), standing for      *)
(* s * 1000 + ms, so that no value leaves the range of the checker's       *)
(* integers.                                                               *)
(***************************************************************************)
Millis(s, ms) == [s |-> s + (ms \div 1000), ms |-> ms % 1000]
TimeAdd(a, b) == Millis(a.s + b.s, a.ms + b.ms)
TimeSub(a, b) == Millis(a.s - b.s, a.ms - b.ms)
TimeGreater(a, b) == a.s > b.s \/ (a.s = b.s /\ a.ms > b.ms)

\* 30 * 24 * 60 * 60 * 1000 milliseconds
ICON_CACHE_DURATION == Millis(30 * 24 * 60 * 60, 0)

imageTypes ==
  { "image/png", "image/jpeg", "image/gif", "image/webp", "image/svg+xml",
    "image/x-icon", "image/vnd.microsoft.icon", "image/ico" }

PlaceholderBody ==
  "iVBORw0KGgoAAAANSUhEUgAAAAEAAAABCAYAAAAfFcSJAAAADUlEQVR42mNkYPhfDwAChAI9jU76/gAAAABJRU5ErkJggg=="

(***************************************************************************)
(* The URLs of the model.  UrlA and UrlB are icons the user selected,      *)
(* each of which the origin may redirect to the other; UrlLocal is         *)
(* selected too but lies under /assets/; UrlPage was never selected.       *)
(***************************************************************************)
UrlA == "https://a.test/favicon.ico"
UrlB == "https://b.test/icon.png"
UrlLocal == "https://a.test/assets/logo.png"
UrlPage == "https://a.test/index.html"

RequestUrls == {UrlA, UrlB, UrlLocal, UrlPage}

\* chrome.storage.local['cached-online-icon-urls'], owned by another feature
AllowList == {UrlA, UrlB, UrlLocal}

\* where the origin may answer a request for u from, after following redirects
FinalUrls(u) ==
  IF u \in {UrlA, UrlB} THEN {UrlA, UrlB} ELSE {u}

(***************************************************************************)
(* Strings: String.prototype.includes.                                     *)
(***************************************************************************)
Includes(s, sub) ==
  \E i \in 1..(Len(s) - Len(sub) + 1) : SubSeq(s, i, i + Len(sub) - 1) = sub

(***************************************************************************)
(* Responses.  headers is a function from the names of the headers that    *)
(* are present to their values; the Date header is an HTTP date, which     *)
(* has a resolution of one second and may be unparsable.                   *)
(***************************************************************************)
HttpDate(secs) == [parsable |-> TRUE, secs |-> secs]
BadDate == [parsable |-> FALSE, secs |-> 0]

HasHeader(response, name) == name \in DOMAIN response.headers

\* a map with no key, and the two updates of a map
EmptyMap == [k \in {} |-> k]
MapPut(m, key, value) == [k \in DOMAIN m \cup {key} |-> IF k = key THEN value ELSE m[k]]
MapDelete(m, key) == [k \in DOMAIN m \ {key} |-> m[k]]

\* ct, cc, dt: the set holding the header's value, empty when it is not sent
MkHeaders(ct, cc, dt) ==
  [n \in (IF ct = {} THEN {} ELSE {"Content-Type"})
          \cup (IF cc = {} THEN {} ELSE {"Cache-Control"})
          \cup (IF dt = {} THEN {} ELSE {"Date"}) |->
     CASE n = "Content-Type" -> CHOOSE v \in ct : TRUE
       [] n = "Cache-Control" -> CHOOSE v \in cc : TRUE
       [] OTHER -> CHOOSE v \in dt : TRUE]

NoResponse == [status |-> 0, url |-> "", headers |-> EmptyMap, body |-> ""]

\* the placeholder built without its headers
PlaceholderNoType ==
  [status |-> 200, url |-> "", headers |-> EmptyMap, body |-> PlaceholderBody]

\* new Response(body, { headers: { 'Content-Type': 'image/png' } })
PlaceholderResponse ==
  [status |-> 200, url |-> "", headers |-> MkHeaders({"image/png"}, {}, {}),
   body |-> PlaceholderBody]

\* new Date(dateHeader).getTime(): a time, or NaN
DateGetTime(dateHeader) ==
  IF dateHeader.parsable
    THEN [nan |-> FALSE, time |-> Millis(dateHeader.secs, 0)]
    ELSE [nan |-> TRUE, time |-> Millis(0, 0)]

\* the Date header an origin with a correct clock sends at time t
ServerDate(t) == HttpDate(t.s)


(***************************************************************************)
(* The pure functions of fetch.js.                                         *)
(***************************************************************************)
\* isCacheExpired with the age compared by >= instead of >
isCacheExpiredAtLimit(response, t) ==
  IF HasHeader(response, "Cache-Control")
       /\ Includes(response.headers["Cache-Control"], "no-store")
    THEN TRUE
  ELSE IF ~HasHeader(response, "Date")
    THEN TRUE
  ELSE LET cachedDate == DateGetTime(response.headers["Date"])
       IN  IF cachedDate.nan
             THEN FALSE
             ELSE LET cacheAge == TimeSub(t, cachedDate.time)
                  IN  ~TimeGreater(ICON_CACHE_DURATION, cacheAge)

\* isCacheExpired(response), with Date.now() = t
isCacheExpired(response, t) ==
  IF HasHeader(response, "Cache-Control")
       /\ Includes(response.headers["Cache-Control"], "no-store")
    THEN TRUE
  ELSE IF ~HasHeader(response, "Date")
    THEN TRUE
  ELSE LET cachedDate == DateGetTime(response.headers["Date"])
       IN  IF cachedDate.nan
             THEN FALSE    \* NaN > ICON_CACHE_DURATION is false
             ELSE LET cacheAge == TimeSub(t, cachedDate.time)
                  IN  TimeGreater(cacheAge, ICON_CACHE_DURATION)

\* isImageResponse(response)
isImageResponse(response) ==
  IF ~HasHeader(response, "Content-Type")
    THEN FALSE
    ELSE \E type \in imageTypes : Includes(response.headers["Content-Type"], type)

\* resolveRedirectUrl following the mapping a second time
resolveRedirectChain(map, originalUrl) ==
  IF originalUrl \in DOMAIN map /\ map[originalUrl] # ""
    THEN IF map[originalUrl] \in DOMAIN map /\ map[map[originalUrl]] # ""
           THEN map[map[originalUrl]]
           ELSE map[originalUrl]
    ELSE originalUrl

\* the value resolveRedirectUrl returns, given the map getRedirectMap read
resolveRedirectUrl(map, originalUrl) ==
  IF originalUrl \in DOMAIN map /\ map[originalUrl] # ""
    THEN map[originalUrl]
    ELSE originalUrl

\* response.ok
IsOk(response) == response.status >= 200 /\ response.status < 300

\* the status test without its upper limit
StatusCacheableAny(response) == response.status >= 200

\* the status test that guards both calls of cacheIcon
StatusCacheable(response) == response.status >= 200 /\ response.status < 400

(***************************************************************************)
(* The network.  An origin answers with one of these header sets and       *)
(* statuses, from one of the final URLs of the request, or the fetch fails *)
(* at transport level.                                                     *)
(***************************************************************************)
\* the headers of an icon and of a page served by an origin with a Date
IconHeaders(t) == MkHeaders({"image/x-icon"}, {}, {ServerDate(t)})
PageHeaders(t) == MkHeaders({"text/html"}, {}, {ServerDate(t)})

\* the other header sets an origin may send, each with status 200
OtherHeaders(t) ==
  { MkHeaders({"image/x-icon"}, {"private, no-store"}, {ServerDate(t)}),
    MkHeaders({"image/x-icon"}, {"max-age=600"}, {}),
    MkHeaders({"text/plain; name=image/png"}, {}, {}),
    MkHeaders({}, {}, {ServerDate(t)}) }

\* the status and headers the origin of u may answer with at time t: the
\* origin of UrlA sends any of the header sets, the origin of UrlB always
\* sends an icon with a Date, under any status, the bundled asset is an
\* image, and the page is a page or missing
Answers(u, t) ==
  IF u = UrlA
    THEN ({200, 404} \X {IconHeaders(t)})
           \cup ({200} \X ({PageHeaders(t)} \cup OtherHeaders(t)))
  ELSE IF u = UrlB
    THEN {200, 304, 404} \X {IconHeaders(t)}
  ELSE IF u = UrlLocal
    THEN {200} \X {IconHeaders(t)}
  ELSE {200, 404} \X {PageHeaders(t)}

\* the responses fetch(u) may resolve to at time t
NetworkResponses(u, t) ==
  { [status |-> a[1], url |-> f, headers |-> a[2], body |-> "bytes"] :
      a \in Answers(u, t), f \in FinalUrls(u) }

(***************************************************************************)
(* State.                                                                  *)
(*   iconCache    the cache ICON_CACHE_NAME: request URL -> response       *)
(*   otherCaches  what the other caches of the origin hold                 *)
(*   storage      chrome.storage.local[REDIRECT_MAP_KEY]                   *)
(*   now          Date.now()                                               *)
(*   task         the fetch handlers in flight, one record per handler     *)
(*   sweep        the cleanExpiredCache run started by activate            *)
(*   redirectStored   history: the request URLs whose latest answered      *)
(*                handler missed the cache, was answered 200 with an image *)
(*                from another URL, and recorded and stored it             *)
(***************************************************************************)
VARIABLES iconCache, otherCaches, storage, now, task, sweep, redirectStored

vars == <<iconCache, otherCaches, storage, now, task, sweep, redirectStored>>

NoResult == [kind |-> "none", response |-> NoResponse]

IdleTask ==
  [pc |-> "idle", originalUrl |-> "", isIcon |-> FALSE, cacheKey |-> "",
   cachedResponse |-> NoResponse, networkResponse |-> NoResponse,
   redirectMap |-> EmptyMap, result |-> NoResult, log |-> << >>]

IdleSweep == [pc |-> "idle", requests |-> {}, request |-> ""]

\* one entry of a handler's log: a call it made on the network, the cache
\* or the storage, and whether the call succeeded
Call(op, arg, ok) == [op |-> op, arg |-> arg, ok |-> ok]

\* the storage and cache calls of handler t that failed so far
Faults(t) ==
  {i \in DOMAIN task[t].log : ~task[t].log[i].ok /\ task[t].log[i].op # "fetch"}

\* the outcomes of the next storage or cache call of handler t: at most
\* MaxFaults calls of one handler fail
Outcomes(t) == IF Cardinality(Faults(t)) < MaxFaults THEN BOOLEAN ELSE {TRUE}

\* a response somebody else put in another cache of the origin
ForeignResponse ==
  [status |-> 200, url |-> UrlB, headers |-> MkHeaders({"text/css"}, {}, {}),
   body |-> "foreign"]

Init ==
  /\ iconCache = EmptyMap
  /\ otherCaches = MapPut(EmptyMap, UrlB, ForeignResponse)
  /\ storage = EmptyMap
  /\ now = Millis(0, 0)
  /\ task = [t \in Tasks |-> IdleTask]
  /\ sweep = IdleSweep
  /\ redirectStored = {}

Quiet == (\A t \in Tasks : task[t].pc = "idle") /\ sweep.pc = "idle"

(***************************************************************************)
(* The clock.                                                              *)
(***************************************************************************)
\* the clock readings of the model: thirty days pass, then one millisecond,
\* then thirty days again, and so on
TicksSoFar == (now.s \div ICON_CACHE_DURATION.s) + now.ms

TickStep ==
  IF now.ms < now.s \div ICON_CACHE_DURATION.s THEN Millis(0, 1)
                                                ELSE ICON_CACHE_DURATION

Tick ==
  /\ TicksSoFar < MaxTicks
  /\ now' = TimeAdd(now, TickStep)
  /\ UNCHANGED <<iconCache, otherCaches, storage, task, sweep, redirectStored>>

(***************************************************************************)
(* The fetch event handler, one action per await.                          *)
(***************************************************************************)
\* self.addEventListener('fetch', ...): a request for url arrives
FetchEvent(t, url) ==
  /\ task[t].pc = "idle"
  /\ \A other \in Tasks : task[other].pc = "idle" => t <= other
  /\ task' = [task EXCEPT ![t] = [IdleTask EXCEPT !.pc = "isIconRequest",
                                                  !.originalUrl = url]]
  /\ UNCHANGED <<iconCache, otherCaches, storage, now, sweep, redirectStored>>

\* isIconRequest without the membership test: every URL outside /assets/
\* counts as an icon
isIconRequestAnyUrl(url, readOk) ==
  IF Includes(url, "/assets/") THEN FALSE ELSE readOk

\* the value of isIconRequest(url), given whether the read of the allow
\* list succeeded
isIconRequest(url, readOk) ==
  IF Includes(url, "/assets/") THEN FALSE
  ELSE IF readOk THEN url \in AllowList
  ELSE FALSE

\* const isIcon = await isIconRequest(event.request.url)
IsIconRequestStep(t) ==
  /\ task[t].pc = "isIconRequest"
  /\ \E readOk \in Outcomes(t) :
       LET url == task[t].originalUrl
           isIcon == isIconRequest(url, readOk)
           calls == IF Includes(url, "/assets/") THEN << >>
                    ELSE << Call("storage.get", "cached-online-icon-urls", readOk) >>
       IN  task' = [task EXCEPT ![t] =
                      [@ EXCEPT !.isIcon = isIcon,
                                !.log = @ \o calls,
                                !.pc = IF isIcon THEN "resolveRedirectUrl"
                                                 ELSE "passThrough"]]
  /\ UNCHANGED <<iconCache, otherCaches, storage, now, sweep, redirectStored>>

\* return fetch(event.request)
PassThrough(t) ==
  /\ task[t].pc = "passThrough"
  /\ \/ \E r \in NetworkResponses(task[t].originalUrl, now) :
          task' = [task EXCEPT ![t] =
                     [@ EXCEPT !.result = [kind |-> "network", response |-> r],
                               !.log = Append(@, Call("fetch", task[t].originalUrl, TRUE)),
                               !.pc = "done"]]
     \/ task' = [task EXCEPT ![t] =
                   [@ EXCEPT !.result = [kind |-> "rejected", response |-> NoResponse],
                             !.log = Append(@, Call("fetch", task[t].originalUrl, FALSE)),
                             !.pc = "done"]]
  /\ UNCHANGED <<iconCache, otherCaches, storage, now, sweep, redirectStored>>

\* const redirectUrl = await resolveRedirectUrl(originalUrl), and the
\* choice of cacheKey; a failed read makes getRedirectMap return {}
ResolveRedirectUrlStep(t) ==
  /\ task[t].pc = "resolveRedirectUrl"
  /\ \E readOk \in Outcomes(t) :
       LET map == IF readOk THEN storage ELSE EmptyMap
           redirectUrl == resolveRedirectUrl(map, task[t].originalUrl)
       IN  task' = [task EXCEPT ![t] =
                      [@ EXCEPT !.cacheKey = redirectUrl,
                                !.log = Append(@, Call("storage.get", "icon-redirect-map", readOk)),
                                !.pc = "cacheMatch"]]
  /\ UNCHANGED <<iconCache, otherCaches, storage, now, sweep, redirectStored>>

\* getIconFromCache that finds the entry and returns null all the same
CacheMatchDiscarded(t) ==
  /\ task[t].pc = "cacheMatch"
  /\ \E readOk \in Outcomes(t) :
       LET key == task[t].cacheKey
           found == readOk /\ key \in DOMAIN iconCache
           entry == IF found THEN iconCache[key] ELSE NoResponse
           logged == Append(task[t].log, Call("cache.match", key, readOk))
       IN  task' = [task EXCEPT ![t] =
                      IF ~found
                        THEN [@ EXCEPT !.log = logged, !.pc = "fetch"]
                      ELSE IF isCacheExpired(entry, now)
                        THEN [@ EXCEPT !.log = logged, !.cachedResponse = entry,
                                       !.pc = "cacheDelete"]
                      ELSE [@ EXCEPT !.log = logged, !.pc = "fetch"]]
  /\ UNCHANGED <<iconCache, otherCaches, storage, now, sweep, redirectStored>>

\* getIconFromCache(cacheKey) up to the verdict on cachedResponse:
\* caches.open, cache.match, isCacheExpired
CacheMatch(t) ==
  /\ task[t].pc = "cacheMatch"
  /\ \E readOk \in Outcomes(t) :
       LET key == task[t].cacheKey
           found == readOk /\ key \in DOMAIN iconCache
           entry == IF found THEN iconCache[key] ELSE NoResponse
           logged == Append(task[t].log, Call("cache.match", key, readOk))
       IN  task' = [task EXCEPT ![t] =
                      IF ~found
                        THEN [@ EXCEPT !.log = logged, !.pc = "fetch"]
                      ELSE IF isCacheExpired(entry, now)
                        THEN [@ EXCEPT !.log = logged, !.cachedResponse = entry,
                                       !.pc = "cacheDelete"]
                      ELSE [@ EXCEPT !.log = logged, !.cachedResponse = entry,
                                     !.result = [kind |-> "cached", response |-> entry],
                                     !.pc = "done"]]
  /\ UNCHANGED <<iconCache, otherCaches, storage, now, sweep, redirectStored>>

\* getIconFromCache returning null for an expired entry without deleting it
CacheDeleteKeeps(t) ==
  /\ task[t].pc = "cacheDelete"
  /\ \E writeOk \in Outcomes(t) :
       /\ iconCache' = iconCache
       /\ task' = [task EXCEPT ![t] =
                     [@ EXCEPT !.log = Append(@, Call("cache.delete", task[t].cacheKey, writeOk)),
                               !.cachedResponse = NoResponse,
                               !.pc = "fetch"]]
  /\ UNCHANGED <<otherCaches, storage, now, sweep, redirectStored>>

\* await cache.delete(request) in getIconFromCache; a failure is caught.
\* getIconFromCache then returns null: the handler holds no cached response
CacheDelete(t) ==
  /\ task[t].pc = "cacheDelete"
  /\ \E writeOk \in Outcomes(t) :
       /\ iconCache' = IF writeOk THEN MapDelete(iconCache, task[t].cacheKey)
                                  ELSE iconCache
       /\ task' = [task EXCEPT ![t] =
                     [@ EXCEPT !.log = Append(@, Call("cache.delete", task[t].cacheKey, writeOk)),
                               !.cachedResponse = NoResponse,
                               !.pc = "fetch"]]
  /\ UNCHANGED <<otherCaches, storage, now, sweep, redirectStored>>

\* the network response came from another URL than the one requested
Redirected(originalUrl, response) ==
  response.url # "" /\ response.url # originalUrl

\* the fetch step throwing on a response that is not ok, as if the
\* transport had failed
NetworkFetchThrowsNotOk(t) ==
  /\ task[t].pc = "fetch"
  /\ \/ \E r \in NetworkResponses(task[t].originalUrl, now) :
          task' = [task EXCEPT ![t] =
                     [@ EXCEPT !.networkResponse = r,
                               !.log = Append(@, Call("fetch", task[t].originalUrl, TRUE)),
                               !.pc = IF ~IsOk(r) THEN "fallback"
                                      ELSE IF Redirected(task[t].originalUrl, r)
                                        THEN "saveRead"
                                      ELSE "cacheIcon"]]
     \/ task' = [task EXCEPT ![t] =
                   [@ EXCEPT !.log = Append(@, Call("fetch", task[t].originalUrl, FALSE)),
                             !.pc = "fallback"]]
  /\ UNCHANGED <<iconCache, otherCaches, storage, now, sweep, redirectStored>>

\* the fetch step with the redirect bookkeeping placed inside the status
\* test: a redirect is recorded only for a status in [200,400)
NetworkFetchRecordsCacheable(t) ==
  /\ task[t].pc = "fetch"
  /\ \/ \E r \in NetworkResponses(task[t].originalUrl, now) :
          task' = [task EXCEPT ![t] =
                     [@ EXCEPT !.networkResponse = r,
                               !.log = Append(@, Call("fetch", task[t].originalUrl, TRUE)),
                               !.result = IF ~StatusCacheable(r)
                                            THEN [kind |-> "network", response |-> r]
                                            ELSE @,
                               !.pc = IF ~StatusCacheable(r) THEN "done"
                                      ELSE IF Redirected(task[t].originalUrl, r)
                                        THEN "saveRead"
                                      ELSE "cacheIcon"]]
     \/ task' = [task EXCEPT ![t] =
                   [@ EXCEPT !.log = Append(@, Call("fetch", task[t].originalUrl, FALSE)),
                             !.pc = "fallback"]]
  /\ UNCHANGED <<iconCache, otherCaches, storage, now, sweep, redirectStored>>

\* networkResponse = await fetch(originalUrl, { redirect: 'follow' })
NetworkFetch(t) ==
  /\ task[t].pc = "fetch"
  /\ \/ \E r \in NetworkResponses(task[t].originalUrl, now) :
          task' = [task EXCEPT ![t] =
                     [@ EXCEPT !.networkResponse = r,
                               !.log = Append(@, Call("fetch", task[t].originalUrl, TRUE)),
                               !.result = IF ~Redirected(task[t].originalUrl, r)
                                             /\ ~StatusCacheable(r)
                                            THEN [kind |-> "network", response |-> r]
                                            ELSE @,
                               !.pc = IF Redirected(task[t].originalUrl, r)
                                        THEN "saveRead"
                                      ELSE IF StatusCacheable(r) THEN "cacheIcon"
                                      ELSE "done"]]
     \/ task' = [task EXCEPT ![t] =
                   [@ EXCEPT !.log = Append(@, Call("fetch", task[t].originalUrl, FALSE)),
                             !.pc = "fallback"]]
  /\ UNCHANGED <<iconCache, otherCaches, storage, now, sweep, redirectStored>>

\* saveRedirectMapping: it returns at once when originalUrl === finalUrl,
\* else const redirectMap = await getRedirectMap()
SaveRead(t) ==
  /\ task[t].pc = "saveRead"
  /\ LET r == task[t].networkResponse
     IN  IF task[t].originalUrl = r.url
           THEN task' = [task EXCEPT ![t] =
                           [@ EXCEPT !.result = IF StatusCacheable(r) THEN @
                                                ELSE [kind |-> "network", response |-> r],
                                     !.pc = IF StatusCacheable(r) THEN "cacheIcon"
                                                                  ELSE "done"]]
           ELSE \E readOk \in Outcomes(t) :
                  task' = [task EXCEPT ![t] =
                             [@ EXCEPT !.redirectMap = IF readOk THEN storage ELSE EmptyMap,
                                       !.log = Append(@, Call("storage.get", "icon-redirect-map", readOk)),
                                       !.pc = "saveWrite"]]
  /\ UNCHANGED <<iconCache, otherCaches, storage, now, sweep, redirectStored>>

\* saveRedirectMapping writing the requested URL as the value of its own
\* entry
SaveWriteSelf(t) ==
  /\ task[t].pc = "saveWrite"
  /\ \E writeOk \in Outcomes(t) :
       LET r == task[t].networkResponse
           redirectMap == MapPut(task[t].redirectMap, task[t].originalUrl,
                                 task[t].originalUrl)
       IN  /\ storage' = IF writeOk THEN redirectMap ELSE storage
           /\ task' = [task EXCEPT ![t] =
                         [@ EXCEPT !.redirectMap = redirectMap,
                                   !.log = Append(@, Call("storage.set", task[t].originalUrl, writeOk)),
                                   !.result = IF StatusCacheable(r) THEN @
                                              ELSE [kind |-> "network", response |-> r],
                                   !.pc = IF StatusCacheable(r) THEN "cacheIcon"
                                                                ELSE "done"]]
  /\ UNCHANGED <<iconCache, otherCaches, now, sweep, redirectStored>>

\* saveRedirectMapping: redirectMap[originalUrl] = finalUrl and
\* await chrome.storage.local.set(...); a failure is caught
SaveWrite(t) ==
  /\ task[t].pc = "saveWrite"
  /\ \E writeOk \in Outcomes(t) :
       LET r == task[t].networkResponse
           redirectMap == MapPut(task[t].redirectMap, task[t].originalUrl, r.url)
       IN  /\ storage' = IF writeOk THEN redirectMap ELSE storage
           /\ task' = [task EXCEPT ![t] =
                         [@ EXCEPT !.redirectMap = redirectMap,
                                   !.log = Append(@, Call("storage.set", task[t].originalUrl, writeOk)),
                                   !.result = IF StatusCacheable(r) THEN @
                                              ELSE [kind |-> "network", response |-> r],
                                   !.pc = IF StatusCacheable(r) THEN "cacheIcon"
                                                                ELSE "done"]]
  /\ UNCHANGED <<iconCache, otherCaches, now, sweep, redirectStored>>

\* cacheIcon called with cacheKey after a redirect too
PutKeyUnredirected(originalUrl, cacheKey, response) == cacheKey

\* the key of the cacheIcon call: finalCacheKey after a redirect, else cacheKey
PutKey(originalUrl, cacheKey, response) ==
  IF Redirected(originalUrl, response) THEN response.url ELSE cacheKey

\* cacheIcon without its try: a failed put reaches the handler's catch block
CacheIconThrows(t) ==
  /\ task[t].pc = "cacheIcon"
  /\ LET r == task[t].networkResponse
         key == PutKey(task[t].originalUrl, task[t].cacheKey, r)
         returned == [kind |-> "network", response |-> r]
     IN  IF ~isImageResponse(r)
           THEN /\ task' = [task EXCEPT ![t] =
                              [@ EXCEPT !.result = returned, !.pc = "done"]]
                /\ UNCHANGED iconCache
           ELSE \E writeOk \in Outcomes(t) :
                  /\ iconCache' = IF writeOk THEN MapPut(iconCache, key, r)
                                             ELSE iconCache
                  /\ task' = [task EXCEPT ![t] =
                                [@ EXCEPT !.log = Append(@, Call("cache.put", key, writeOk)),
                                          !.result = IF writeOk THEN returned ELSE @,
                                          !.pc = IF writeOk THEN "done" ELSE "fallback"]]
  /\ UNCHANGED <<otherCaches, storage, now, sweep, redirectStored>>

\* cacheIcon(key, networkResponse), then return networkResponse
CacheIcon(t) ==
  /\ task[t].pc = "cacheIcon"
  /\ LET r == task[t].networkResponse
         key == PutKey(task[t].originalUrl, task[t].cacheKey, r)
         returned == [kind |-> "network", response |-> r]
     IN  IF ~isImageResponse(r)
           THEN /\ task' = [task EXCEPT ![t] =
                              [@ EXCEPT !.result = returned, !.pc = "done"]]
                /\ UNCHANGED iconCache
           ELSE \E writeOk \in Outcomes(t) :
                  /\ iconCache' = IF writeOk THEN MapPut(iconCache, key, r)
                                             ELSE iconCache
                  /\ task' = [task EXCEPT ![t] =
                                [@ EXCEPT !.log = Append(@, Call("cache.put", key, writeOk)),
                                          !.result = returned,
                                          !.pc = "done"]]
  /\ UNCHANGED <<otherCaches, storage, now, sweep, redirectStored>>

\* what caches.match(key) may resolve to: it searches every cache of the
\* origin, in the order the caches were created
CachesMatch(key) ==
  {iconCache[k] : k \in {key} \cap DOMAIN iconCache}
    \cup {otherCaches[k] : k \in {key} \cap DOMAIN otherCaches}

\* the catch block calling caches.match(event.request) instead of
\* caches.match(cacheKey)
FallbackOriginalUrl(t) ==
  /\ task[t].pc = "fallback"
  /\ LET key == task[t].originalUrl
     IN  \/ \E r \in CachesMatch(key) :
              task' = [task EXCEPT ![t] =
                         [@ EXCEPT !.log = Append(@, Call("caches.match", key, TRUE)),
                                   !.result = [kind |-> "cached", response |-> r],
                                   !.pc = "done"]]
         \/ /\ CachesMatch(key) = {}
            /\ task' = [task EXCEPT ![t] =
                          [@ EXCEPT !.log = Append(@, Call("caches.match", key, TRUE)),
                                    !.result = [kind |-> "placeholder",
                                                response |-> PlaceholderResponse],
                                    !.pc = "done"]]
         \/ /\ FALSE \in Outcomes(t)
            /\ task' = [task EXCEPT ![t] =
                       [@ EXCEPT !.log = Append(@, Call("caches.match", key, FALSE)),
                                 !.result = [kind |-> "rejected", response |-> NoResponse],
                                 !.pc = "done"]]
  /\ UNCHANGED <<iconCache, otherCaches, storage, now, sweep, redirectStored>>

\* the catch block: caches.match(cacheKey), else the placeholder; a failure
\* of caches.match is not caught
Fallback(t) ==
  /\ task[t].pc = "fallback"
  /\ LET key == task[t].cacheKey
     IN  \/ \E r \in CachesMatch(key) :
              task' = [task EXCEPT ![t] =
                         [@ EXCEPT !.log = Append(@, Call("caches.match", key, TRUE)),
                                   !.result = [kind |-> "cached", response |-> r],
                                   !.pc = "done"]]
         \/ /\ CachesMatch(key) = {}
            /\ task' = [task EXCEPT ![t] =
                          [@ EXCEPT !.log = Append(@, Call("caches.match", key, TRUE)),
                                    !.result = [kind |-> "placeholder",
                                                response |-> PlaceholderResponse],
                                    !.pc = "done"]]
         \/ /\ FALSE \in Outcomes(t)
            /\ task' = [task EXCEPT ![t] =
                       [@ EXCEPT !.log = Append(@, Call("caches.match", key, FALSE)),
                                 !.result = [kind |-> "rejected", response |-> NoResponse],
                                 !.pc = "done"]]
  /\ UNCHANGED <<iconCache, otherCaches, storage, now, sweep, redirectStored>>

\* the calls of handler t with one of these names, as positions of its log
Calls(t, ops) == {i \in DOMAIN task[t].log : task[t].log[i].op \in ops}

\* handler t missed the cache, was answered 200 with an image from another
\* URL than it asked for, and recorded the mapping and stored the response
RedirectStoreCall(t) ==
  /\ task[t].isIcon
  /\ Faults(t) = {}
  /\ task[t].result = [kind |-> "network", response |-> task[t].networkResponse]
  /\ Redirected(task[t].originalUrl, task[t].networkResponse)
  /\ task[t].networkResponse.status = 200
  /\ Calls(t, {"cache.put"}) # {}

\* the handler's promise settled: the browser takes the result
Respond(t) ==
  /\ task[t].pc = "done"
  /\ task' = [task EXCEPT ![t] = IdleTask]
  /\ redirectStored' = IF RedirectStoreCall(t)
                         THEN redirectStored \cup {task[t].originalUrl}
                         ELSE redirectStored \ {task[t].originalUrl}
  /\ UNCHANGED <<iconCache, otherCaches, storage, now, sweep>>

(***************************************************************************)
(* cleanExpiredCache, started by the activate event, one action per await. *)
(* Any failure inside it is caught and ends the run.                       *)
(***************************************************************************)
\* self.addEventListener('activate', ...)
Activate ==
  /\ sweep.pc = "idle"
  /\ sweep' = [IdleSweep EXCEPT !.pc = "keys"]
  /\ UNCHANGED <<iconCache, otherCaches, storage, now, task, redirectStored>>

\* const requests = await cache.keys()
SweepKeys ==
  /\ sweep.pc = "keys"
  /\ \E readOk \in BOOLEAN :
       sweep' = IF readOk /\ DOMAIN iconCache # {}
                  THEN [sweep EXCEPT !.requests = DOMAIN iconCache, !.pc = "match"]
                  ELSE IdleSweep
  /\ UNCHANGED <<iconCache, otherCaches, storage, now, task, redirectStored>>

\* the sweep after it dealt with request
SweepNext(request) ==
  IF sweep.requests \ {request} = {}
    THEN IdleSweep
    ELSE [pc |-> "match", requests |-> sweep.requests \ {request}, request |-> ""]

\* the loop of cleanExpiredCache without the isCacheExpired test: every
\* entry it finds is deleted
SweepMatchDeletesAll ==
  /\ sweep.pc = "match"
  /\ \E request \in sweep.requests, readOk \in BOOLEAN :
       sweep' = IF ~readOk THEN IdleSweep
                ELSE IF request \in DOMAIN iconCache
                  THEN [sweep EXCEPT !.request = request, !.pc = "delete"]
                ELSE SweepNext(request)
  /\ UNCHANGED <<iconCache, otherCaches, storage, now, task, redirectStored>>

\* const response = await cache.match(request), and the verdict on it
SweepMatch ==
  /\ sweep.pc = "match"
  /\ \E request \in sweep.requests, readOk \in BOOLEAN :
       sweep' = IF ~readOk THEN IdleSweep
                ELSE IF request \in DOMAIN iconCache
                        /\ isCacheExpired(iconCache[request], now)
                  THEN [sweep EXCEPT !.request = request, !.pc = "delete"]
                ELSE SweepNext(request)
  /\ UNCHANGED <<iconCache, otherCaches, storage, now, task, redirectStored>>

\* await cache.delete(request)
SweepDelete ==
  /\ sweep.pc = "delete"
  /\ \E writeOk \in BOOLEAN :
       /\ iconCache' = IF writeOk THEN MapDelete(iconCache, sweep.request)
                                  ELSE iconCache
       /\ sweep' = IF writeOk THEN SweepNext(sweep.request) ELSE IdleSweep
  /\ UNCHANGED <<otherCaches, storage, now, task, redirectStored>>

(***************************************************************************)
(* Specifications.  Under Spec a fetch event or an activation arrives, and *)
(* the clock is seen to advance, only when nothing is in flight; under     *)
(* ConcurrentSpec handlers, the sweep and the clock interleave at every    *)
(* await.                                                                  *)
(***************************************************************************)
HandlerStep(t) ==
  \/ IsIconRequestStep(t)
  \/ PassThrough(t)
  \/ ResolveRedirectUrlStep(t)
  \/ CacheMatch(t)
  \/ CacheDelete(t)
  \/ NetworkFetch(t)
  \/ SaveRead(t)
  \/ SaveWrite(t)
  \/ CacheIcon(t)
  \/ Fallback(t)
  \/ Respond(t)

SweepStep == SweepKeys \/ SweepMatch \/ SweepDelete

Next ==
  \/ \E t \in Tasks, url \in RequestUrls : Quiet /\ FetchEvent(t, url)
  \/ Quiet /\ Activate
  \/ \E t \in Tasks : HandlerStep(t)
  \/ SweepStep
  \/ Quiet /\ Tick

Spec == Init /\ [][Next]_vars

ConcurrentNext ==
  \/ \E t \in Tasks, url \in RequestUrls : FetchEvent(t, url)
  \/ Activate
  \/ \E t \in Tasks : HandlerStep(t)
  \/ SweepStep
  \/ Tick

ConcurrentSpec == Init /\ [][ConcurrentNext]_vars

(***************************************************************************)
(* RaceSpec is ConcurrentSpec in a narrower environment, small enough to   *)
(* explore in full: handlers interleave at every await, but no storage or  *)
(* cache call fails, every answer of an origin to a selected icon is a 200 *)
(* icon, sent with a Date or without one, the clock stands still and no    *)
(* activation occurs.  Every behaviour of RaceSpec is one of               *)
(* ConcurrentSpec.                                                         *)
(***************************************************************************)
\* the step of handler t leaves it without a failed storage or cache call
NoFault(t) ==
  \A i \in DOMAIN task'[t].log :
    task'[t].log[i].ok \/ task'[t].log[i].op = "fetch"

\* the answer handler t holds after the step is one of the narrow environment
RaceAnswer(t) ==
  LET r == task'[t].networkResponse
  IN  \/ r = NoResponse
      \/ /\ r.status = 200
         /\ r.headers \in {IconHeaders(now),
                           MkHeaders({"image/x-icon"}, {"max-age=600"}, {})}

RaceNext ==
  \/ \E t \in Tasks, url \in RequestUrls : FetchEvent(t, url)
  \/ \E t \in Tasks : HandlerStep(t) /\ NoFault(t) /\ RaceAnswer(t)

RaceSpec == Init /\ [][RaceNext]_vars

(***************************************************************************)
(* Properties.  A handler is at "done" from the moment its promise settled *)
(* until the browser took the result, so stating a property of the "done"  *)
(* states states it of every call of the handler.                          *)
(***************************************************************************)
Done(t) == task[t].pc = "done"

\* the network fetches handler t issued, and those that failed
Fetches(t) == Calls(t, {"fetch"})
FailedFetches(t) == {i \in Fetches(t) : ~task[t].log[i].ok}

\* the writes handler t attempted on the icon cache and on the mapping
Writes(t) == Calls(t, {"cache.put", "cache.delete", "storage.set"})

\* no storage or cache call of handler t failed
Nominal(t) == Faults(t) = {}

\* C1: a request whose URL is not in the allow list is answered by exactly
\* one plain network fetch of that URL, the handler attempts no put or
\* delete on the icon cache and no write of the redirect mapping, and no
\* step taken while it is in flight changes either store.
C1_PassThroughLeavesStores ==
  [][\A t \in Tasks :
       /\ (task'[t].pc = "done" /\ task'[t].originalUrl \notin AllowList) =>
            /\ Len(task'[t].log) >= 1
            /\ task'[t].log[Len(task'[t].log)].op = "fetch"
            /\ task'[t].log[Len(task'[t].log)].arg = task'[t].originalUrl
            /\ \A i \in 1..(Len(task'[t].log) - 1) :
                 task'[t].log[i].op = "storage.get"
            /\ task'[t].result.kind \in {"network", "rejected"}
       /\ (task[t].pc # "idle" /\ task[t].originalUrl \notin AllowList) =>
            iconCache' = iconCache /\ storage' = storage]_vars

C1_Witness ==
  \E t \in Tasks :
    /\ Done(t)
    /\ task[t].originalUrl = UrlPage
    /\ task[t].result.kind = "network"
    /\ iconCache # EmptyMap
    /\ storage # EmptyMap

\* C2: every call of the handler ends with a response, never with a
\* rejection that reaches the caller.
C2_AlwaysResponds ==
  \A t \in Tasks : Done(t) => task[t].result.kind # "rejected"

\* C3: when the cache key of a selected icon held an expired entry as the
\* handler started (the handler found it and went on to delete it), no
\* storage or cache call failed and the network fetch failed, the handler
\* answers with a cached response, not with the placeholder.
C3_StaleServedOnFailure ==
  \A t \in Tasks :
    (/\ Done(t)
     /\ task[t].isIcon
     /\ Nominal(t)
     /\ Calls(t, {"cache.delete"}) # {}
     /\ FailedFetches(t) # {})
    => task[t].result.kind = "cached"

\* C4: when nothing is stored under the cache key of a selected icon, in
\* the icon cache or in any other cache, no storage or cache call failed
\* and the network fetch failed, the handler answers with the placeholder,
\* whose content type is image/png and whose body is not empty.
C4_PlaceholderWhenNothingCached ==
  \A t \in Tasks :
    (/\ Done(t)
     /\ task[t].isIcon
     /\ Nominal(t)
     /\ FailedFetches(t) # {}
     /\ Calls(t, {"cache.delete"}) = {}
     /\ task[t].cacheKey \notin DOMAIN iconCache
     /\ task[t].cacheKey \notin DOMAIN otherCaches)
    => /\ task[t].result.kind = "placeholder"
       /\ HasHeader(task[t].result.response, "Content-Type")
       /\ task[t].result.response.headers["Content-Type"] = "image/png"
       /\ task[t].result.response.body # ""

C4_Witness ==
  \E t \in Tasks :
    /\ Done(t)
    /\ task[t].isIcon
    /\ Nominal(t)
    /\ FailedFetches(t) # {}
    /\ task[t].cacheKey \notin DOMAIN iconCache
    /\ task[t].cacheKey \notin DOMAIN otherCaches
    /\ task[t].result.kind = "placeholder"

\* the calls of a log with one of these names, and the log's failed
\* storage and cache calls
LogCalls(log, ops) == {i \in DOMAIN log : log[i].op \in ops}
LogFaults(log) == {i \in DOMAIN log : ~log[i].ok /\ log[i].op # "fetch"}

ThirtyDaysInSeconds == 30 * 24 * 60 * 60

\* the verdict the specification gives on a stored response at time t:
\* expired when it says no-store, when it has no Date, and when its Date T
\* has t - T > 30 days
ExpiredAsSpecified(response, t) ==
  \/ /\ HasHeader(response, "Cache-Control")
     /\ Includes(response.headers["Cache-Control"], "no-store")
  \/ ~HasHeader(response, "Date")
  \/ /\ HasHeader(response, "Date")
     /\ response.headers["Date"].parsable
     /\ LET elapsed == t.s - response.headers["Date"].secs
        IN  \/ elapsed > ThirtyDaysInSeconds
            \/ elapsed = ThirtyDaysInSeconds /\ t.ms > 0

\* handler t takes the step that completes getIconFromCache's lookup, no
\* storage or cache call of it having failed, and the icon cache holds
\* under its cache key an entry that is not expired
FreshLookupStep(t) ==
  /\ task[t].pc = "cacheMatch"
  /\ task'[t].pc # "cacheMatch"
  /\ LogFaults(task'[t].log) = {}
  /\ task[t].cacheKey \in DOMAIN iconCache
  /\ ~ExpiredAsSpecified(iconCache[task[t].cacheKey], now)

\* the handler was answered from the cache by that step: it returns the
\* entry, has issued no network fetch and no write, and both stores are as
\* they were
ServedFromCache(t) ==
  /\ task'[t].pc = "done"
  /\ task'[t].result = [kind |-> "cached", response |-> iconCache[task[t].cacheKey]]
  /\ LogCalls(task'[t].log, {"fetch", "cache.put", "cache.delete", "storage.set"}) = {}
  /\ iconCache' = iconCache
  /\ storage' = storage

\* C5: whenever a handler for a selected icon looks up its resolved cache
\* key and the icon cache holds a non-expired entry under it, the handler
\* returns that entry, issues no network fetch, and leaves the icon cache
\* and the redirect mapping unchanged; this holds of every call, so of any
\* number of repeated calls.
C5_FreshHitNoFetch ==
  [][\A t \in Tasks : FreshLookupStep(t) => ServedFromCache(t)]_vars

C5_Witness ==
  \E t \in Tasks :
    /\ Done(t)
    /\ task[t].result.kind = "cached"
    /\ Fetches(t) = {}
    /\ task[t].cacheKey # task[t].originalUrl
    /\ now.s > 0

\* the media type of a Content-Type value: what precedes its parameters
MediaType(contentType) ==
  LET semis == {i \in 1..Len(contentType) : SubSeq(contentType, i, i) = ";"}
  IN  IF semis = {} THEN contentType
      ELSE SubSeq(contentType, 1, (CHOOSE i \in semis : \A j \in semis : i <= j) - 1)

\* C6: every entry of the icon cache has a content type that is one of the
\* allowed image types.
C6_StoreHoldsOnlyImages ==
  \A key \in DOMAIN iconCache :
    /\ HasHeader(iconCache[key], "Content-Type")
    /\ MediaType(iconCache[key].headers["Content-Type"]) \in imageTypes

\* C7: when a handler reads the redirect mapping and the mapping holds
\* A -> B for its URL A, its cache key is B, the value mapped to A and
\* nothing further along the mapping; and every network fetch of a handler
\* for a selected icon comes after a lookup of the icon cache under that
\* cache key.
C7_MappedKeyLookedUpFirst ==
  [][\A t \in Tasks :
       /\ (/\ task[t].pc = "resolveRedirectUrl"
           /\ task'[t].pc = "cacheMatch"
           /\ LogFaults(task'[t].log) = {}
           /\ task[t].originalUrl \in DOMAIN storage)
          => task'[t].cacheKey = storage[task[t].originalUrl]
       /\ (task'[t].isIcon /\ task'[t].pc # "idle") =>
            \A i \in LogCalls(task'[t].log, {"fetch"}) :
              \E j \in 1..(i - 1) :
                /\ task'[t].log[j].op = "cache.match"
                /\ task'[t].log[j].arg = task'[t].cacheKey]_vars

C7_Witness ==
  \E t \in Tasks :
    /\ task[t].originalUrl = UrlA
    /\ UrlA \in DOMAIN storage /\ storage[UrlA] = UrlB
    /\ UrlB \in DOMAIN storage /\ storage[UrlB] = UrlA
    /\ task[t].cacheKey = UrlB
    /\ Nominal(t)
    /\ Fetches(t) # {}
    /\ task[t].log[2] = Call("storage.get", "icon-redirect-map", TRUE)
    /\ task[t].log[3] = Call("cache.match", UrlB, TRUE)

\* what a redirected, stored answer leaves behind: the mapping from the
\* requested URL to the final URL, the response under the final URL, and
\* no put under the requested URL
RedirectRecorded(t) ==
  LET originalUrl == task'[t].originalUrl
      response == task'[t].networkResponse
  IN  /\ originalUrl \in DOMAIN storage'
      /\ storage'[originalUrl] = response.url
      /\ response.url \in DOMAIN iconCache'
      /\ iconCache'[response.url] = response
      /\ \A i \in LogCalls(task'[t].log, {"cache.put"}) :
           task'[t].log[i].arg # originalUrl

\* handler t completes, no storage or cache call of it having failed, and
\* it missed the cache and stored a 200 image served from another URL
RedirectStoreCompletes(t) ==
  /\ task[t].pc # "done"
  /\ task'[t].pc = "done"
  /\ task'[t].isIcon
  /\ LogFaults(task'[t].log) = {}
  /\ Redirected(task'[t].originalUrl, task'[t].networkResponse)
  /\ task'[t].networkResponse.status = 200
  /\ LogCalls(task'[t].log, {"cache.put"}) # {}

\* handler t is the next handler for a URL after one that recorded and
\* stored a redirect for it, and it completes without a failed storage or
\* cache call
NextAfterRedirectCompletes(t) ==
  /\ task[t].pc # "done"
  /\ task'[t].pc = "done"
  /\ task'[t].isIcon
  /\ LogFaults(task'[t].log) = {}
  /\ task'[t].originalUrl \in redirectStored

\* C8 as stated: after a miss answered 200 with an image from B # A, the
\* mapping holds A -> B, the icon cache holds the response under B and
\* nothing was put under A, and the next handler for A is answered from
\* the cache without a network fetch.
C8_NextAlwaysServedFromCache ==
  [][\A t \in Tasks :
       /\ RedirectStoreCompletes(t) => RedirectRecorded(t)
       /\ NextAfterRedirectCompletes(t) =>
            /\ task'[t].result.kind = "cached"
            /\ LogCalls(task'[t].log, {"fetch"}) = {}]_vars

\* C8 as amended: after a miss answered 200 with an image from B # A, the
\* mapping holds A -> B, the icon cache holds the response under B and
\* nothing was put under A; the next handler for A is answered from the
\* cache without a network fetch provided that the icon cache holds, when
\* that handler looks up its cache key, an entry that is not expired.
C8_NextServedWhileFresh ==
  [][\A t \in Tasks :
       /\ RedirectStoreCompletes(t) => RedirectRecorded(t)
       /\ (FreshLookupStep(t) /\ task[t].originalUrl \in redirectStored) =>
            /\ task'[t].pc = "done"
            /\ task'[t].result.kind = "cached"
            /\ LogCalls(task'[t].log, {"fetch"}) = {}]_vars

C8_Witness ==
  \E t \in Tasks :
    /\ Done(t)
    /\ Nominal(t)
    /\ task[t].originalUrl = UrlA
    /\ UrlA \in redirectStored
    /\ task[t].cacheKey = UrlB
    /\ task[t].result.kind = "cached"
    /\ Fetches(t) = {}

\* C9: a stored response with a Date T and no no-store directive is judged
\* expired exactly when now - T > 30 days, and one with no Date or with
\* no-store always: the handler and the sweep go on to delete an entry only
\* when it is expired in that sense, and the handler serves an entry from
\* the cache only when it is not.
C9_ExpiredExactlyAfterThirtyDays ==
  /\ \A t \in Tasks :
       /\ task[t].pc = "cacheDelete" =>
            ExpiredAsSpecified(task[t].cachedResponse, now)
       /\ (Done(t) /\ task[t].result.kind = "cached" /\ Fetches(t) = {}) =>
            ~ExpiredAsSpecified(task[t].result.response, now)
  /\ sweep.pc = "delete" =>
       /\ sweep.request \in DOMAIN iconCache
       /\ ExpiredAsSpecified(iconCache[sweep.request], now)

C9_Witness ==
  \E t \in Tasks :
    /\ Done(t)
    /\ task[t].result.kind = "cached"
    /\ Fetches(t) = {}
    /\ HasHeader(task[t].result.response, "Date")
    /\ now.s - task[t].result.response.headers["Date"].secs = ThirtyDaysInSeconds
    /\ now.ms = 0

\* C10: when the origin answers a handler for a selected icon with a status
\* outside [200,300), the handler returns that response, with that status;
\* it does not look into the caches as the failure fallback does, and
\* returns neither a cached entry nor the placeholder.
C10_StatusSurfaced ==
  \A t \in Tasks :
    (/\ Done(t)
     /\ task[t].isIcon
     /\ Fetches(t) # {}
     /\ FailedFetches(t) = {}
     /\ ~IsOk(task[t].networkResponse))
    => /\ task[t].result = [kind |-> "network", response |-> task[t].networkResponse]
       /\ Calls(t, {"caches.match"}) = {}

C10_Witness ==
  \E t \in Tasks :
    /\ Done(t)
    /\ task[t].isIcon
    /\ task[t].result.kind = "network"
    /\ task[t].result.response.status = 404

\* the writes of handler t, on the icon cache or on the mapping, that failed
FailedWrites(t) ==
  {i \in Calls(t, {"cache.put", "storage.set"}) : ~task[t].log[i].ok}

\* handler t received a response from the network
Answered(t) == Fetches(t) # {} /\ FailedFetches(t) = {}

\* C11: when the put on the icon cache or the write of the redirect mapping
\* fails during a call of the handler, the handler returns the network
\* response it received, as it does when the write succeeds: the failure
\* does not reach the caller and does not lead to the fallback.
C11_WriteFailureSwallowed ==
  \A t \in Tasks :
    (Done(t) /\ task[t].isIcon /\ FailedWrites(t) # {})
    => /\ Answered(t)
       /\ task[t].result = [kind |-> "network", response |-> task[t].networkResponse]
       /\ Calls(t, {"caches.match"}) = {}

C11_Witness ==
  \E t \in Tasks :
    /\ Done(t)
    /\ \E i \in FailedWrites(t) : task[t].log[i].op = "cache.put"
    /\ Calls(t, {"storage.set"}) # {}
    /\ task[t].result.kind = "network"
    /\ task[t].result.response.status = 200

\* C12: the redirect mapping never maps a URL to itself.
C12_NoSelfMapping ==
  \A u \in DOMAIN storage : storage[u] # u

C12_Witness ==
  /\ UrlA \in DOMAIN storage
  /\ UrlB \in DOMAIN storage
  /\ \E t \in Tasks :
       /\ Done(t)
       /\ task[t].isIcon
       /\ Answered(t)
       /\ task[t].networkResponse.url = task[t].originalUrl
       /\ task[t].originalUrl \in DOMAIN storage

\* C13: once the redirect mapping holds an entry for a URL it holds an
\* entry for that URL in every later state, also when handlers for
\* different URLs run concurrently.
C13_MappingGrowsMonotonically ==
  [][DOMAIN storage \subseteq DOMAIN storage']_vars

\* C14: whenever the network answers a handler for a selected icon from
\* another URL than the one requested, the handler writes the mapping from
\* the requested URL to the final URL, whatever the status of the response;
\* when the fetch fails at transport level the handler writes no mapping.
C14_RecordOnAnyStatus ==
  \A t \in Tasks :
    (Done(t) /\ task[t].isIcon) =>
      /\ (Answered(t) /\ Redirected(task[t].originalUrl, task[t].networkResponse)) =>
           \E i \in Calls(t, {"storage.set"}) :
             /\ task[t].log[i].arg = task[t].originalUrl
             /\ task[t].log[i].ok =>
                  /\ task[t].originalUrl \in DOMAIN storage
                  /\ storage[task[t].originalUrl] = task[t].networkResponse.url
      /\ FailedFetches(t) # {} => Calls(t, {"storage.set"}) = {}

C14_Witness ==
  \E t \in Tasks :
    /\ Done(t)
    /\ task[t].originalUrl = UrlA
    /\ task[t].networkResponse.status = 404
    /\ task[t].networkResponse.url = UrlB
    /\ Nominal(t)
    /\ UrlA \in DOMAIN storage
    /\ storage[UrlA] = UrlB

\* a content type that names one of the image types
ImageLike(response) ==
  /\ HasHeader(response, "Content-Type")
  /\ \E type \in imageTypes : Includes(response.headers["Content-Type"], type)

LastCall(t) == task[t].log[Len(task[t].log)]

\* handler t read the redirect mapping, and the mapping has an entry for
\* its URL
MappingRead(t) ==
  /\ Len(task[t].log) >= 2
  /\ task[t].log[2] = Call("storage.get", "icon-redirect-map", TRUE)
  /\ task[t].originalUrl \in DOMAIN storage

\* the entries under a key in the caches of the origin
EntriesUnder(key) ==
  (IF key \in DOMAIN iconCache THEN {iconCache[key]} ELSE {})
    \cup (IF key \in DOMAIN otherCaches THEN {otherCaches[key]} ELSE {})

\* C16 as stated: when the mapping has an entry for the URL of a handler
\* and its network fetch fails, the lookup of the fallback is under the URL
\* that was requested.
C16_FallbackUnderOriginalUrl ==
  \A t \in Tasks :
    (Done(t) /\ task[t].isIcon /\ FailedFetches(t) # {} /\ MappingRead(t))
    => /\ LastCall(t).op = "caches.match"
       /\ LastCall(t).arg = task[t].originalUrl

\* C16 as amended: when the network fetch of a handler fails, the lookup of
\* the fallback is under the cache key the handler resolved, so under B
\* when the mapping holds A -> B for its URL A; the lookup makes no test of
\* freshness, and the handler returns the entry when one is found.
C16_FallbackUnderCacheKey ==
  \A t \in Tasks :
    (Done(t) /\ task[t].isIcon /\ FailedFetches(t) # {})
    => /\ LastCall(t).op = "caches.match"
       /\ LastCall(t).arg = task[t].cacheKey
       /\ MappingRead(t) => LastCall(t).arg = storage[task[t].originalUrl]
       /\ (LastCall(t).ok /\ EntriesUnder(task[t].cacheKey) # {}) =>
            /\ task[t].result.kind = "cached"
            /\ task[t].result.response \in EntriesUnder(task[t].cacheKey)

C16_Witness ==
  \E t \in Tasks :
    /\ Done(t)
    /\ task[t].originalUrl = UrlA
    /\ FailedFetches(t) # {}
    /\ MappingRead(t)
    /\ storage[UrlA] = UrlB
    /\ LastCall(t) = Call("caches.match", UrlB, TRUE)
    /\ task[t].result.kind = "cached"
    /\ UrlB \in DOMAIN iconCache
    /\ task[t].result.response = iconCache[UrlB]

\* handler t takes the step that puts a response in the icon cache
PutStep(t) ==
  /\ task[t].pc = "cacheIcon"
  /\ Len(task'[t].log) = Len(task[t].log) + 1
  /\ task'[t].log[Len(task'[t].log)].op = "cache.put"
  /\ task'[t].log[Len(task'[t].log)].ok

\* the key of that put
PutStepKey(t) == task'[t].log[Len(task'[t].log)].arg

SweepCompletes ==
  /\ sweep.pc # "idle"
  /\ sweep'.pc = "idle"
  /\ \/ sweep.pc = "keys" /\ iconCache = EmptyMap
     \/ /\ sweep.pc = "match"
        /\ \E request \in sweep.requests :
             /\ sweep.requests = {request}
             /\ ~(request \in DOMAIN iconCache /\ isCacheExpired(iconCache[request], now))
     \/ /\ sweep.pc = "delete"
        /\ sweep.requests = {sweep.request}
        /\ iconCache' # iconCache

\* C18: the sweep lists the keys of the icon cache once; while it runs,
\* with no handler in flight, each of its steps leaves the icon cache as it
\* is or removes one entry that isCacheExpired judges expired, and leaves
\* the mapping and the handlers alone; when it has dealt with every key no
\* entry of the icon cache is judged expired; and however it ends, by
\* completion or by a failed cache call, it is back at rest, as before the
\* activation.
C18_SweepRemovesExactlyExpired ==
  [][/\ (sweep.pc = "keys" /\ sweep'.pc # "idle") =>
          /\ sweep'.requests = DOMAIN iconCache
          /\ sweep'.pc = "match"
     /\ (sweep.pc \in {"match", "delete"} /\ sweep'.pc # "idle") =>
          sweep'.requests \subseteq sweep.requests
     /\ sweep.pc # "idle" =>
          /\ task' = task
          /\ storage' = storage
          /\ \/ iconCache' = iconCache
             \/ \E request \in DOMAIN iconCache :
                  /\ isCacheExpired(iconCache[request], now)
                  /\ iconCache' = MapDelete(iconCache, request)
     /\ SweepCompletes =>
          \A request \in DOMAIN iconCache' :
            ~isCacheExpired(iconCache'[request], now')
     /\ sweep'.pc = "idle" => sweep' = IdleSweep]_vars

C18_Witness ==
  /\ sweep.pc = "delete"
  /\ sweep.requests = {sweep.request}
  /\ \E request \in DOMAIN iconCache \ sweep.requests :
       ~isCacheExpired(iconCache[request], now)
  /\ now.s > 0

\* C19: every entry removed from the icon cache is expired at the moment it
\* is removed, also when handlers run concurrently.
C19_OnlyExpiredDeleted ==
  [][\A key \in DOMAIN iconCache \ DOMAIN iconCache' :
       ExpiredAsSpecified(iconCache[key], now)]_vars

\* C20: a cached response a handler for a selected icon returns is the
\* entry the icon cache holds under the handler's cache key.
C20_CachedComesFromIconCache ==
  \A t \in Tasks :
    (Done(t) /\ task[t].isIcon /\ task[t].result.kind = "cached")
    => /\ task[t].cacheKey \in DOMAIN iconCache
       /\ task[t].result.response = iconCache[task[t].cacheKey]

====
